---- MODULE Spec2Model ----
(***************************************************************************)
(* Model of ConfluencToSharePoint (confluenc_to_sharepoint.py): the        *)
(* migration driver parse_confluence_HTML, the reference rewriting         *)
(* (fixAttachmentsPath, fixAnchors), the canvas builder (getSPPageCanvas), *)
(* the attachment upload (uploadPageAttachment, add_attachments), the page *)
(* creation (add_edit_page) and the link log (logLinks).                   *)
(*                                                                         *)
(* Strings are sequences of tokens: "d1/a.png" is <<"d1", "/", "a.png">>,  *)
(* concatenation is \o, a text is a sequence of characters.  An absent     *)
(* attribute is None.  uuid.uuid4() is a fresh number.                     *)
(***************************************************************************)
EXTENDS Integers, Sequences, FiniteSets, TLC

VARIABLES
    pages,         \* the export directory: index entries and their page documents
    settings,      \* settings.cfg and the arguments of parse_confluence_HTML
    files,         \* per index entry: "present", "missing" or "complete" (renamed)
    run,           \* number of the current parse_confluence_HTML call
    idx,           \* position of the loop over pageSection
    pc,            \* position inside parse_confluence_HTML
    result,        \* return value of the last finished call
    main_content,  \* the page's #main-content subtree, edited in place
    page_canvas,   \* value returned by getSPPageCanvas
    page,          \* value returned by add_edit_page
    cur,           \* locals of the current loop iteration and of add_edit_page
    calls,         \* Target Content Store calls the last step made, and for which entry
    remote,        \* site pages of the store
    ll_items,      \* items of ll_list, oldest first
    assets,        \* files of the store's asset folders
    att,           \* last add_attachments call: arguments and returned dict
    linklog,       \* lines of logfile.log
    nextGuid,      \* source of uuid4 values
    fn             \* history of the functions applied (function specification)

vars == <<pages, settings, files, run, idx, pc, result, main_content, page_canvas, page, cur,
          calls, remote, ll_items, assets, att, linklog, nextGuid, fn>>

----------------------------------------------------------------------------
(* Bounds *)

NumPages == 2

MaxRuns == 2

MaxLen == 3

MaxFiles == 2

MaxOther == 1

----------------------------------------------------------------------------
(* Strings and elements *)

None == <<"None">>

Blank == " "

base_url == <<"https://site">>

assets_folder == <<"assets">>

RteInstanceId == 0

\* str.rstrip(): trailing whitespace removed
RECURSIVE rstrip(_)
rstrip(s) ==
    IF Len(s) > 0 /\ s[Len(s)] = Blank THEN rstrip(SubSeq(s, 1, Len(s) - 1)) ELSE s

RECURSIVE lstrip(_)
lstrip(s) ==
    IF Len(s) > 0 /\ s[1] = Blank THEN lstrip(Tail(s)) ELSE s

\* str.strip()
strip(s) == lstrip(rstrip(s))

\* position of the last "/" of a path, 0 if there is none
RECURSIVE lastSlash(_)
lastSlash(p) ==
    IF Len(p) = 0 THEN 0
    ELSE IF p[Len(p)] = "/" THEN Len(p)
    ELSE lastSlash(SubSeq(p, 1, Len(p) - 1))

\* os.path.dirname and os.path.basename
dirname(p) == SubSeq(p, 1, lastSlash(p) - 1)

basename(p) == SubSeq(p, lastSlash(p) + 1, Len(p))

\* f"{a}/{b}"
slash(a, b) == a \o <<"/">> \o b

\* str.replace("#", "")
RECURSIVE dropHash(_)
dropHash(s) ==
    IF Len(s) = 0 THEN <<>>
    ELSE IF Head(s) = "#" THEN dropHash(Tail(s))
    ELSE <<Head(s)>> \o dropHash(Tail(s))

\* one node of the content tree
El(tag, id, href, src, text, attachment) ==
    [tag |-> tag, id |-> id, href |-> href, src |-> src, text |-> text,
     att |-> attachment, rm |-> FALSE, inst |-> 0, inner |-> ""]

\* Tag.text of the whole subtree
RECURSIVE textOf(_)
textOf(c) == IF Len(c) = 0 THEN <<>> ELSE Head(c).text \o textOf(Tail(c))

\* the selectors handed to find_all
selects(e, what) ==
    CASE what = "attachment" -> e.att
      [] what = "link" -> e.tag = "a" /\ e.href # None
      [] what = "img" -> e.tag = "img"
      [] OTHER -> FALSE

\* indices of the elements find_all returns, in document order
RECURSIVE indicesFrom(_, _, _)
indicesFrom(c, i, what) ==
    IF i > Len(c) THEN <<>>
    ELSE (IF selects(c[i], what) THEN <<i>> ELSE <<>>) \o indicesFrom(c, i + 1, what)

\* main_content.find_all(attrs={"data-linked-resource-type": "attachment"})
\* every link is taken for an attachment
find_attachmentsAnyLink(c) == indicesFrom(c, 1, "link")

find_attachments(c) == indicesFrom(c, 1, "attachment")

\* main_content.find_all("a", href=True)
find_links(c) == indicesFrom(c, 1, "link")

\* content.find_all("img")
find_images(c) == indicesFrom(c, 1, "img")

----------------------------------------------------------------------------
(* fixAttachmentsPath *)

main_path == slash(base_url, assets_folder)

\* the loop of fixAttachmentsPath over the list ixs; a KeyError ends the loop
\* (caught, returns False) and keeps the edits made so far
RECURSIVE fixAttachmentsLoop(_, _)
fixAttachmentsLoop(c, ixs) ==
    IF Len(ixs) = 0 THEN [content |-> c, ok |-> TRUE]
    ELSE LET i == Head(ixs) IN
         IF c[i].tag = "a" THEN
             IF c[i].href = None THEN [content |-> c, ok |-> FALSE]
             ELSE fixAttachmentsLoop([c EXCEPT ![i].href = slash(main_path, @)], Tail(ixs))
         ELSE IF c[i].tag = "img" THEN
             IF c[i].src = None THEN [content |-> c, ok |-> FALSE]
             ELSE fixAttachmentsLoop(
                      [c EXCEPT ![i].src = slash(main_path, @),
                                ![i].href = slash(main_path, c[i].src)], Tail(ixs))
         ELSE fixAttachmentsLoop(c, Tail(ixs))

fixAttachmentsPath(c) == fixAttachmentsLoop(c, find_attachments(c))

----------------------------------------------------------------------------
(* fixAnchors *)

\* main_content.find("h3", {"id": target}): index of the first match, 0 if none
RECURSIVE findTagFrom(_, _, _, _)
findTagFrom(c, i, tag, target) ==
    IF i > Len(c) THEN 0
    ELSE IF c[i].tag = tag /\ c[i].id = target THEN i
    ELSE findTagFrom(c, i + 1, tag, target)

findHeading(c, target) == findTagFrom(c, 1, "h3", target)

\* anchor.name = "a"; h3.string = anchor.text.strip(); anchor.string = ""; anchor.append(h3)
\* the heading text is kept untrimmed
convertHeadingUntrimmed(e) == [e EXCEPT !.tag = "a", !.inner = "h3"]

convertHeading(e) == [e EXCEPT !.tag = "a", !.text = strip(e.text), !.inner = "h3"]

RECURSIVE fixAnchorsLoop(_, _, _)
fixAnchorsLoop(c, links, k) ==
    IF k > Len(links) THEN c
    ELSE LET href == links[k]
             anchor == findHeading(c, dropHash(href))
         IN IF href # <<>> /\ href[1] = "#" /\ anchor # 0
            THEN fixAnchorsLoop([c EXCEPT ![anchor] = convertHeading(c[anchor])], links, k + 1)
            ELSE fixAnchorsLoop(c, links, k + 1)

\* the hrefs of the links handed over by the caller
hrefsOf(c, ixs) == [k \in 1..Len(ixs) |-> c[ixs[k]].href]

fixAnchors(c) == fixAnchorsLoop(c, hrefsOf(c, find_links(c)), 1)

----------------------------------------------------------------------------
(* getSPPageCanvas *)

Block(controlType, id, src, uniqueId, propId, innerHTML) ==
    [controlType |-> controlType, id |-> id, imageSource |-> src,
     uniqueId |-> uniqueId, propId |-> propId, innerHTML |-> innerHTML]

\* the element img.replace_with(soup) leaves in the markup
Placeholder(guid) ==
    [tag |-> "div", id |-> None, href |-> None, src |-> None, text |-> <<>>,
     att |-> FALSE, rm |-> FALSE, inst |-> guid, inner |-> ""]

\* the placeholder carries guid2 instead of guid
placeholderIdOther(guid) == guid + 1

\* line 591: data-instance-id='{guid}'
placeholderId(guid) == guid

\* lines 577-579: the k-th uuid.uuid4() of the loop iteration that starts at g
\* the values are the same in every iteration
uuid4Repeated(g, k) == k + 1

uuid4(g, k) == g + k

\* the loop over images; img['src'] of an img without src raises KeyError
RECURSIVE canvasLoop(_, _, _, _)
canvasLoop(c, ixs, blocks, g) ==
    IF Len(ixs) = 0 THEN [ok |-> TRUE, content |-> c, blocks |-> blocks, guid |-> g]
    ELSE LET i == Head(ixs) IN
         IF c[i].src = None
         THEN [ok |-> FALSE, content |-> c, blocks |-> blocks, guid |-> g + 3]
         ELSE LET guid == uuid4(g, 0)
                  guid2 == uuid4(g, 1)
                  guid3 == uuid4(g, 2)
              IN canvasLoop([c EXCEPT ![i] = Placeholder(placeholderId(guid))], Tail(ixs),
                            Append(blocks, Block(3, guid, c[i].src, guid2, guid3, <<>>)),
                            g + 3)

\* the rich-text block is left out
tailBlocksNoText(c) == <<Block(0, -1, None, -1, -1, <<>>)>>

\* lines 655-679: the rich-text block and the settings block
tailBlocks(c) == <<Block(4, RteInstanceId, None, -1, -1, c), Block(0, -1, None, -1, -1, <<>>)>>

getSPPageCanvas(c, g) ==
    LET r == canvasLoop(c, find_images(c), <<>>, g)
    IN [ok |-> r.ok, content |-> r.content, guid |-> r.guid,
        canvas |-> IF r.ok THEN r.blocks \o tailBlocks(r.content) ELSE <<>>]

----------------------------------------------------------------------------
(* add_attachments *)

NotFound == "Not uploaded: File not found. Check the file name and try again"

Exists == "Not uploaded: File exists and overwrite is set to false"

Completed == "File upload completed"

Failed == "Upload failed due to an error."

Status(res, name, url) == [result |-> res, name |-> name, serverRelativeUrl |-> url]

RemoteFile(folder, name, data) == [folder |-> folder, name |-> name, data |-> data]

\* folder_files.filter(f"Name eq '{filename}'"): the files of that name in the folder
filterName(as, folder, name) == {f \in as : f.folder = folder /\ f.name = name}

\* target_folder.upload_file(filename, file_content)
upload_file(as, folder, name, data) ==
    (as \ filterName(as, folder, name)) \cup {RemoteFile(folder, name, data)}

\* one Store round trip (execute_query): it raises when it is the failAt-th
storeCall(st, failAt) ==
    [st EXCEPT !.calls = @ + 1, !.raised = (st.calls + 1 = failAt)]

\* the overwrite test inverted
skipsExistingInverted(found, overwrite) == found /\ overwrite

\* lines 342-347: the file is there and overwrite is not set
skipsExisting(found, overwrite) == found /\ ~overwrite

\* the loop of add_attachments over files_to_add[k..]
RECURSIVE addLoop(_, _, _, _, _, _)
addLoop(fs, k, folder, overwrite, failAt, st) ==
    IF k > Len(fs) \/ st.raised THEN st
    ELSE LET path == fs[k].path
             filename == basename(path)
         IN IF ~fs[k].exists
            THEN addLoop(fs, k + 1, folder, overwrite, failAt,
                         [st EXCEPT !.result[path] = Status(NotFound, None, None)])
            ELSE LET q == storeCall(st, failAt)
                     found == filterName(st.assets, folder, filename)
                 IN IF q.raised THEN q
                    ELSE IF skipsExisting(found # {}, overwrite)
                    THEN addLoop(fs, k + 1, folder, overwrite, failAt,
                             [q EXCEPT !.result[path] =
                                  Status(Exists, filename, slash(folder, filename))])
                    ELSE LET u == storeCall(q, failAt)
                         IN IF u.raised THEN u
                            ELSE addLoop(fs, k + 1, folder, overwrite, failAt,
                                     [u EXCEPT
                                        !.assets = upload_file(@, folder, filename, path),
                                        !.uploads = Append(@, path),
                                        !.result[path] =
                                            Status(Completed, filename, slash(folder, filename))])

pathsOf(fs) == {fs[k].path : k \in DOMAIN fs}

\* add_attachments(files_to_add, page_folder, overwrite) on the asset files as;
\* the failAt-th Store call raises (0: none does)
add_attachments(fs, page_folder, overwrite, as, failAt) ==
    LET folder == slash(assets_folder, page_folder)
        st0 == [assets |-> as, result |-> [p \in pathsOf(fs) |-> Status("", None, None)],
                calls |-> 0, uploads |-> <<>>, raised |-> FALSE]
        st1 == storeCall(st0, failAt)
        st2 == IF st1.raised THEN st1 ELSE storeCall(st1, failAt)
        st3 == IF st2.raised THEN st2 ELSE addLoop(fs, 1, folder, overwrite, failAt, st2)
    IN [files |-> fs, folder |-> folder, overwrite |-> overwrite, before |-> as,
        assets |-> st3.assets, calls |-> st3.calls, uploads |-> st3.uploads,
        raised |-> st3.raised,
        result |-> IF st3.raised THEN [p \in pathsOf(fs) |-> Status(Failed, None, None)]
                   ELSE st3.result]

\* an upper bound of the Store calls of one add_attachments call
maxAttCalls(fs) == 2 + 2 * Len(fs)

----------------------------------------------------------------------------
(* logLinks *)

\* "html" in href
containsHtml(href) == \E i \in DOMAIN href : href[i] = "html"

LogLine(href, text, url) == [href |-> href, text |-> text, url |-> url]

\* lines 762-767: the loop body only assigns href; the test and the
\* logging.info call come after the loop and see the last link
logLinks(c, links, page_url, log) ==
    IF Len(links) = 0 THEN log
    ELSE LET link == c[links[Len(links)]]
         IN IF containsHtml(link.href)
            THEN Append(log, LogLine(link.href, link.text, page_url))
            ELSE log

----------------------------------------------------------------------------
(* uploadPageAttachment *)

\* lines 284-290: the files that exist, and the directory of the first of
\* them that has one
RECURSIVE existingFiles(_)
existingFiles(as) ==
    IF Len(as) = 0 THEN <<>>
    ELSE (IF Head(as).exists THEN <<Head(as)>> ELSE <<>>) \o existingFiles(Tail(as))

RECURSIVE pageFolder(_, _)
pageFolder(as, page_name) ==
    IF Len(as) = 0 THEN page_name
    ELSE pageFolder(Tail(as),
             IF Head(as).exists /\ page_name = <<>> THEN dirname(Head(as).path)
             ELSE page_name)

----------------------------------------------------------------------------
(* remove_elements *)

RECURSIVE remove_elements(_)
remove_elements(c) ==
    IF Len(c) = 0 THEN <<>>
    ELSE (IF Head(c).rm THEN <<>> ELSE <<Head(c)>>) \o remove_elements(Tail(c))

----------------------------------------------------------------------------
(* Contents the functions are applied to *)

T == "t"

Path(d, f) == slash(<<d>>, <<f>>)

Elems ==
    { El("text", None, None, None, <<T>>, FALSE),
      El("text", None, None, None, <<Blank>>, FALSE),
      El("a", None, <<"p2", ".", "html">>, None, <<T>>, FALSE),
      El("a", None, <<"#", "x">>, None, <<T>>, FALSE),
      El("h3", <<"x">>, None, None, <<Blank, T, Blank>>, FALSE),
      El("h2", <<"x">>, None, None, <<T, Blank>>, FALSE),
      El("img", None, None, Path("d1", "a.png"), <<>>, TRUE),
      El("img", None, None, slash(<<"http://ext">>, <<"c.png">>), <<>>, FALSE),
      El("img", None, None, None, <<>>, FALSE),
      El("a", None, Path("d1", "b.pdf"), None, <<T>>, TRUE) }

Contents == UNION { [1..n -> Elems] : n \in 0..MaxLen }

----------------------------------------------------------------------------
(* Function specification: fixAttachmentsPath, fixAnchors and              *)
(* getSPPageCanvas applied, in any order, to a content drawn from Contents *)

MaxOps == 2

driverVars == <<pages, settings, files, run, idx, pc, result, page, cur, calls, remote,
                ll_items, linklog>>

attVars == <<assets, att>>

DriverOff ==
    /\ pages = <<>> /\ settings = "none" /\ files = <<>> /\ run = 0 /\ idx = 0
    /\ pc = "off" /\ result = "none" /\ page = "none" /\ cur = "none" /\ calls = <<>>
    /\ remote = <<>> /\ ll_items = <<>> /\ linklog = <<>>

AttOff == assets = {} /\ att = "none"

InitFn ==
    /\ DriverOff /\ AttOff
    /\ main_content \in Contents
    /\ fn = [orig |-> main_content, prev |-> main_content, ops |-> <<>>, raised |-> FALSE]
    /\ page_canvas = <<>>
    /\ nextGuid = 1

lastOp == IF Len(fn.ops) = 0 THEN "" ELSE fn.ops[Len(fn.ops)]

\* the canvas is built once, from the rewritten content (lines 164-173)
FnEnabled == Len(fn.ops) < MaxOps /\ lastOp # "getSPPageCanvas"

FnStep(op, raised) ==
    fn' = [fn EXCEPT !.prev = main_content, !.ops = Append(@, op), !.raised = raised]

ApplyFixAttachmentsPath ==
    /\ FnEnabled
    /\ main_content' = fixAttachmentsPath(main_content).content
    /\ FnStep("fixAttachmentsPath", FALSE)
    /\ UNCHANGED <<page_canvas, nextGuid, driverVars, attVars>>

ApplyFixAnchors ==
    /\ FnEnabled
    /\ main_content' = fixAnchors(main_content)
    /\ FnStep("fixAnchors", FALSE)
    /\ UNCHANGED <<page_canvas, nextGuid, driverVars, attVars>>

ApplyGetSPPageCanvas ==
    /\ FnEnabled
    /\ LET r == getSPPageCanvas(main_content, nextGuid)
       IN /\ main_content' = r.content
          /\ page_canvas' = r.canvas
          /\ nextGuid' = r.guid
          /\ FnStep("getSPPageCanvas", ~r.ok)
    /\ UNCHANGED <<driverVars, attVars>>

NextFn == ApplyFixAttachmentsPath \/ ApplyFixAnchors \/ ApplyGetSPPageCanvas

SpecFn == InitFn /\ [][NextFn]_vars

----------------------------------------------------------------------------
(* Claims about the functions *)

imgCount(c) == Cardinality({i \in DOMAIN c : c[i].tag = "img"})

built == lastOp = "getSPPageCanvas" /\ ~fn.raised

blocksOf(t) == {k \in DOMAIN page_canvas : page_canvas[k].controlType = t}

\* C4 (as claimed): a second fixAttachmentsPath on content it has already
\* rewritten changes nothing.
C4_RewriteIdempotent ==
    (Len(fn.ops) = 2 /\ fn.ops[1] = "fixAttachmentsPath" /\ fn.ops[2] = "fixAttachmentsPath")
        => main_content = fn.prev

\* C5: for content with N img elements the canvas returned has exactly N image
\* blocks, and the rich-text markup has no img and exactly N placeholders whose
\* data-instance-id values are pairwise distinct and are exactly the ids of
\* the image blocks.
C5_ImagePlaceholderBijection ==
    built =>
        LET N == imgCount(fn.prev)
            ids == {page_canvas[k].id : k \in blocksOf(3)}
        IN /\ Cardinality(blocksOf(3)) = N
           /\ Cardinality(ids) = N
           /\ blocksOf(4) # {}
           /\ \A r \in blocksOf(4) :
                 LET m == page_canvas[r].innerHTML
                     ph == {i \in DOMAIN m : m[i].inst # 0}
                 IN /\ \A i \in DOMAIN m : m[i].tag # "img"
                    /\ Cardinality(ph) = N
                    /\ \A i, j \in ph : m[i].inst = m[j].inst => i = j
                    /\ {m[i].inst : i \in ph} = ids

C5_Witness == built /\ imgCount(fn.prev) >= 2

isHeading(e) == e.tag \in {"h1", "h2", "h3", "h4", "h5", "h6"}

linkedTo(c, id) == \E j \in DOMAIN c : c[j].tag = "a" /\ c[j].href = <<"#">> \o id

\* the element is a link that keeps the heading's id (and is given no href)
\* and wraps the trimmed heading text in a nested heading
selfLink(e, old) ==
    /\ e.tag = "a" /\ e.id = old.id /\ e.href = old.href /\ e.inner = "h3"
    /\ e.text = strip(old.text)
    /\ (Len(e.text) > 0 => e.text[1] # Blank /\ e.text[Len(e.text)] # Blank)

\* C7 (as claimed): every heading element with id x that some link "#x" points
\* to has become a self-link around its trimmed text after fixAnchors.
C7_AnyHeadingConverted ==
    lastOp = "fixAnchors" =>
        \A i \in DOMAIN fn.prev :
            (isHeading(fn.prev[i]) /\ fn.prev[i].id # None /\ linkedTo(fn.prev, fn.prev[i].id))
                => selfLink(main_content[i], fn.prev[i])

firstWithId(c, i) ==
    \A k \in 1..(i - 1) : ~(c[k].tag = "h3" /\ c[k].id = c[i].id)

\* C7 (amended): the first h3 element with id x, when some link "#x" points
\* to it, has become a self-link around its trimmed text after fixAnchors,
\* however many links point to "#x".
C7_FirstH3Converted ==
    lastOp = "fixAnchors" =>
        \A i \in DOMAIN fn.prev :
            (/\ fn.prev[i].tag = "h3" /\ fn.prev[i].id # None
             /\ firstWithId(fn.prev, i)
             /\ linkedTo(fn.prev, fn.prev[i].id))
                => selfLink(main_content[i], fn.prev[i])

C7_Witness ==
    /\ lastOp = "fixAnchors"
    /\ \E i \in DOMAIN fn.prev :
          /\ fn.prev[i].tag = "h3" /\ fn.prev[i].text # strip(fn.prev[i].text)
          /\ Cardinality({j \in DOMAIN fn.prev : fn.prev[j].href = <<"#">> \o fn.prev[i].id}) >= 2
          /\ selfLink(main_content[i], fn.prev[i])

----------------------------------------------------------------------------
(* Attachment specification: one add_attachments call on files and a       *)
(* target folder drawn from bounded sets                                   *)

LocalFile(path, exists) == [path |-> path, exists |-> exists]

LocalFiles ==
    { LocalFile(Path("d1", "a.png"), TRUE),
      LocalFile(Path("d2", "a.png"), TRUE),
      LocalFile(Path("d1", "b.pdf"), TRUE),
      LocalFile(Path("d1", "gone.png"), FALSE) }

FileLists == UNION { [1..n -> LocalFiles] : n \in 0..MaxFiles }

Old == <<"old">>

RemoteBefore ==
    SUBSET { RemoteFile(slash(assets_folder, <<"d1">>), <<"a.png">>, Old),
             RemoteFile(slash(assets_folder, <<"d1">>), <<"b.pdf">>, Old) }

NoCall ==
    [files |-> <<>>, folder |-> <<>>, overwrite |-> FALSE, before |-> {}, assets |-> {},
     calls |-> 0, uploads |-> <<>>, raised |-> FALSE, result |-> <<>>]

FnOff == fn = "none" /\ main_content = <<>> /\ page_canvas = <<>> /\ nextGuid = 1

InitAtt ==
    /\ DriverOff /\ FnOff
    /\ assets \in RemoteBefore
    /\ \E fs \in FileLists, ow \in BOOLEAN :
         att = [files |-> fs, page_folder |-> <<"d1">>, overwrite |-> ow,
                done |-> FALSE, ret |-> NoCall]

AddAttachmentsCall ==
    /\ ~att.done
    /\ \E failAt \in 0..maxAttCalls(att.files) :
         LET r == add_attachments(att.files, att.page_folder, att.overwrite, assets, failAt)
         IN /\ att' = [att EXCEPT !.done = TRUE, !.ret = r]
            /\ assets' = r.assets
    /\ UNCHANGED <<driverVars, fn, main_content, page_canvas, nextGuid>>

NextAtt == AddAttachmentsCall

SpecAtt == InitAtt /\ [][NextAtt]_vars

\* the files of the call that exist locally and whose base name was in the
\* target folder when the call was made
alreadyThere ==
    {k \in DOMAIN att.files :
        /\ att.files[k].exists
        /\ \E f \in att.ret.before :
              f.folder = att.ret.folder /\ f.name = basename(att.files[k].path)}

inSeq(x, q) == \E i \in DOMAIN q : q[i] = x

\* no upload call was made for file k and the remote file of its name is as before
leftAlone(k) ==
    LET path == att.files[k].path IN
    /\ ~inSeq(path, att.ret.uploads)
    /\ \A f \in att.ret.before :
          (f.folder = att.ret.folder /\ f.name = basename(path)) => f \in assets
    /\ \A f \in assets :
          (f.folder = att.ret.folder /\ f.name = basename(path)) => f \in att.ret.before

notUploadedStatus(k) ==
    LET path == att.files[k].path IN
    att.ret.result[path] =
        Status(Exists, basename(path), slash(slash(assets_folder, att.page_folder), basename(path)))

othersProcessed ==
    \A j \in DOMAIN att.files :
        /\ att.ret.result[att.files[j].path].result \in {NotFound, Exists, Completed}
        /\ ~att.files[j].exists => att.ret.result[att.files[j].path].result = NotFound
        /\ (att.files[j].exists /\ att.ret.result[att.files[j].path].result = Completed)
              => inSeq(att.files[j].path, att.ret.uploads)

----------------------------------------------------------------------------
(* The export directory *)

Page(main, content, attachments, author) ==
    [file |-> TRUE, main |-> main, content |-> content, attachments |-> attachments,
     author |-> author]

Removable == [El("div", None, None, None, <<T>>, FALSE) EXCEPT !.rm = TRUE]

TextNode(t) == El("text", None, None, None, t, FALSE)

Link(href) == El("a", None, href, None, <<T>>, FALSE)

\* no children
PEmpty == Page(TRUE, <<>>, <<>>, <<>>)

\* whitespace only
PBlank == Page(TRUE, <<TextNode(<<Blank, Blank>>)>>, <<>>, <<T>>)

\* text without links
PText == Page(TRUE, <<TextNode(<<T>>), Removable>>, <<>>, <<Blank>>)

\* two links to other pages
PLinks ==
    Page(TRUE, <<Link(<<"p2", ".", "html">>), TextNode(<<T>>), Link(<<"p3", ".", "html">>)>>,
         <<>>, <<T>>)

\* an in-page anchor and its heading
PAnchor ==
    Page(TRUE, <<Link(<<"p2", ".", "html">>), Link(<<"#", "x">>),
                 El("h3", <<"x">>, None, None, <<Blank, T>>, FALSE)>>, <<>>, <<>>)

\* an embedded image and an attached file that lie in two directories of the
\* export, an attachment whose file is gone, and an image that is no
\* attachment (an emoticon of the export's images directory)
PImage ==
    Page(TRUE, <<El("img", None, None, Path("d1", "a.png"), <<>>, TRUE), TextNode(<<T>>),
                 El("a", None, Path("d2", "b.pdf"), None, <<T>>, TRUE),
                 El("img", None, None, Path("images", "e.png"), <<>>, FALSE)>>,
         <<LocalFile(Path("d1", "gone.png"), FALSE), LocalFile(Path("d1", "a.png"), TRUE),
           LocalFile(Path("d2", "b.pdf"), TRUE)>>, <<T>>)

\* no #main-content element
PNoMain == Page(FALSE, <<>>, <<>>, <<>>)

\* listed in the index, but there is no such file (and so no document)
PMissing == [PNoMain EXCEPT !.file = FALSE]

PageKinds == {PEmpty, PBlank, PText, PLinks, PAnchor, PImage, PNoMain, PMissing}

\* list_name names the Site Pages library and sp_fields are given, or it names
\* another list and there are none; root tells whether the path argument is
\* a directory with an index.html ("index"), a directory without one
\* ("no_index") or no directory at all ("no_path")
Settings ==
    { [list_is_site_pages |-> TRUE, sp_fields |-> TRUE, root |-> "index"],
      [list_is_site_pages |-> FALSE, sp_fields |-> FALSE, root |-> "index"],
      [list_is_site_pages |-> TRUE, sp_fields |-> TRUE, root |-> "no_index"],
      [list_is_site_pages |-> TRUE, sp_fields |-> TRUE, root |-> "no_path"] }

----------------------------------------------------------------------------
(* parse_confluence_HTML *)

NoPage == [ok |-> FALSE, id |-> 0, url |-> 0]

NoAtt ==
    [files |-> <<>>, page_folder |-> <<>>, overwrite |-> FALSE, done |-> FALSE, ret |-> NoCall]

NoCalls == [entry |-> 0, n |-> 0]

StoreCalls(entry, n) == IF n = 0 THEN NoCalls ELSE [entry |-> entry, n |-> n]

NoCur == [site_page |-> 0, item |-> 0, logStart |-> 0]

\* os.path.isfile(f"{path}{page_file}")
\* the renamed file still counts as the page's file
isfileAnyName(state) == state \in {"present", "complete"}

\* only the renamed file is told from a file that is there
isfileUnlessRenamed(state) == state # "complete"

isfile(state) == state = "present"

\* line 123: os.path.exists(path) and os.path.isfile(f"{path}index.html")
\* the test for index.html is left out
rootReadableAnyDir(root) == root # "no_path"

rootReadable(root) == root = "index"

\* line 141: the for loop takes the entry after entry i
\* the loop leaves out an entry
nextEntrySkipping(i) == i + 2

nextEntry(i) == i + 1

\* line 152: len(main_content.contents) == 0 or len(main_content.text.rstrip()) == 0
\* only the number of children is tested
isEmptyNoChildren(c) == Len(c) = 0

isEmpty(c) == Len(c) = 0 \/ Len(rstrip(textOf(c))) = 0

Init ==
    /\ settings \in Settings
    /\ pages \in [1..NumPages -> IF settings.root = "no_path" THEN {PMissing} ELSE PageKinds]
    /\ files = [i \in 1..NumPages |-> IF pages[i].file THEN "present" ELSE "missing"]
    /\ run = 1 /\ idx = 0 /\ pc = "start" /\ result = "none"
    /\ main_content = <<>> /\ page_canvas = <<>> /\ page = NoPage /\ cur = NoCur
    /\ calls = NoCalls
    /\ remote = <<>> /\ ll_items = <<>> /\ linklog = <<>>
    /\ assets = {}
    /\ att = NoAtt
    /\ nextGuid = 1
    /\ fn = "none"

\* the except clauses of lines 192-197
ReturnFalse == pc' = "returned" /\ result' = "False"

\* lines 123-140: the bare raise of line 125 (RuntimeError, caught at line 195)
\* when the path or its index.html is not there, else the index is read
Start ==
    /\ pc = "start"
    /\ IF rootReadable(settings.root)
       THEN pc' = "loop" /\ idx' = 1 /\ UNCHANGED result
       ELSE ReturnFalse /\ UNCHANGED idx
    /\ calls' = NoCalls
    /\ UNCHANGED <<pages, settings, files, run, main_content, page_canvas, page,
                   cur, remote, ll_items, assets, att, linklog, nextGuid, fn>>

\* lines 190-191: the loop is over
LoopDone ==
    /\ pc = "loop" /\ idx > NumPages
    /\ pc' = "returned" /\ result' = "True"
    /\ calls' = NoCalls
    /\ UNCHANGED <<pages, settings, files, run, idx, main_content, page_canvas, page,
                   cur, remote, ll_items, assets, att, linklog, nextGuid, fn>>

\* lines 141-152: the next entry of the index
LoopEntry ==
    /\ pc = "loop" /\ idx \in 1..NumPages
    /\ IF ~isfile(files[idx])
       THEN idx' = nextEntry(idx) /\ main_content' = <<>> /\ UNCHANGED <<pc, result>>
       ELSE IF ~pages[idx].main
       THEN ReturnFalse /\ main_content' = <<>> /\ UNCHANGED idx
       ELSE IF isEmpty(pages[idx].content)
       THEN idx' = nextEntry(idx) /\ main_content' = <<>> /\ UNCHANGED <<pc, result>>
       ELSE /\ main_content' = pages[idx].content
            /\ pc' = "user"
            /\ UNCHANGED <<idx, result>>
    /\ cur' = [NoCur EXCEPT !.logStart = Len(linklog)]
    /\ page' = NoPage /\ page_canvas' = <<>> /\ att' = NoAtt
    /\ calls' = NoCalls
    /\ UNCHANGED <<pages, settings, files, run, remote, ll_items, assets, linklog,
                   nextGuid, fn>>

\* lines 154-158, getSiteUser: a Store query unless the name is blank; it
\* returns the user or None and raises nothing
GetSiteUser ==
    /\ pc = "user"
    /\ calls' = StoreCalls(idx, (IF strip(pages[idx].author) = <<>> THEN 0 ELSE 1))
    /\ pc' = "remove"
    /\ UNCHANGED <<pages, settings, files, run, idx, result, main_content, page_canvas,
                   page, cur, remote, ll_items, assets, att, linklog, nextGuid, fn>>

\* lines 160-161
RemoveElements ==
    /\ pc = "remove"
    /\ main_content' = remove_elements(main_content)
    /\ pc' = "upload"
    /\ calls' = NoCalls
    /\ UNCHANGED <<pages, settings, files, run, idx, result, page_canvas, page, cur, remote, ll_items, assets, att, linklog, nextGuid, fn>>

\* lines 162-163, uploadPageAttachment: add_attachments for the files that exist
UploadPageAttachment ==
    /\ pc = "upload"
    /\ LET as == pages[idx].attachments
           arr == existingFiles(as)
       IN IF Len(arr) = 0
          THEN calls' = NoCalls /\ UNCHANGED <<assets, att>>
          ELSE \E failAt \in 0..maxAttCalls(arr) :
                 LET r == add_attachments(arr, pageFolder(as, <<>>), FALSE, assets, failAt)
                 IN /\ failAt <= r.calls
                    /\ assets' = r.assets
                    /\ att' = [files |-> arr, page_folder |-> pageFolder(as, <<>>),
                               overwrite |-> FALSE, done |-> TRUE, ret |-> r]
                    /\ calls' = StoreCalls(idx, r.calls)
    /\ pc' = "rewrite"
    /\ UNCHANGED <<pages, settings, files, run, idx, result, main_content, page_canvas,
                   page, cur, remote, ll_items, linklog, nextGuid, fn>>

\* lines 165-167
FixAttachmentsPath ==
    /\ pc = "rewrite"
    /\ main_content' = fixAttachmentsPath(main_content).content
    /\ pc' = "anchors"
    /\ calls' = NoCalls
    /\ UNCHANGED <<pages, settings, files, run, idx, result, page_canvas, page, cur, remote, ll_items, assets, att, linklog, nextGuid, fn>>

\* lines 169-171
FixAnchors ==
    /\ pc = "anchors"
    /\ main_content' = fixAnchors(main_content)
    /\ pc' = "canvas"
    /\ calls' = NoCalls
    /\ UNCHANGED <<pages, settings, files, run, idx, result, page_canvas, page, cur, remote, ll_items, assets, att, linklog, nextGuid, fn>>

\* lines 173-178
GetSPPageCanvas ==
    /\ pc = "canvas"
    /\ LET r == getSPPageCanvas(main_content, nextGuid)
       IN /\ main_content' = r.content
          /\ nextGuid' = r.guid
          /\ page_canvas' = r.canvas
          /\ IF r.ok THEN pc' = "create" /\ UNCHANGED result ELSE ReturnFalse
    /\ calls' = NoCalls
    /\ UNCHANGED <<pages, settings, files, run, idx, page, cur, remote, ll_items,
                   assets, att, linklog, fn>>

----------------------------------------------------------------------------
(* add_edit_page, called with page_id = None and no attachments *)

SitePage(owner) == [owner |-> owner, canvas |-> <<>>]

Item(id, site_page) == [id |-> id, site_page |-> site_page, fields |-> FALSE]

\* lines 472-520: pages.add(), the title area, save_draft and publish, sent by
\* one execute_query
AddPageShell ==
    /\ pc = "create"
    /\ calls' = StoreCalls(idx, 1)
    /\ \E raised \in BOOLEAN :
         IF raised
         THEN ReturnFalse /\ UNCHANGED <<remote, ll_items, cur>>
         ELSE /\ remote' = Append(remote, SitePage(idx))
              /\ ll_items' = IF settings.list_is_site_pages
                             THEN Append(ll_items, Item(Len(ll_items) + 1, Len(remote) + 1))
                             ELSE ll_items
              /\ cur' = [cur EXCEPT !.site_page = Len(remote) + 1]
              /\ pc' = "aep_query" /\ UNCHANGED result
    /\ UNCHANGED <<pages, settings, files, run, idx, main_content, page_canvas, page,
                   assets, att, linklog, nextGuid, fn>>

\* the items of the list that no page of this program stands behind
otherItems(items) == {k \in DOMAIN items : items[k].site_page = 0}

\* another client of the store adds an item to ll_list after the publish of
\* line 520 and before the query of line 526
OtherClientAddsItem ==
    /\ pc = "aep_query"
    /\ Cardinality(otherItems(ll_items)) < MaxOther
    /\ ll_items' = Append(ll_items, Item(Len(ll_items) + 1, 0))
    /\ calls' = NoCalls
    /\ UNCHANGED <<pages, settings, files, run, idx, pc, result, main_content, page_canvas,
                   page, cur, remote, assets, att, linklog, nextGuid, fn>>

\* the Store calls of lines 526-536 when the list has an item
queryCalls == IF settings.sp_fields THEN 4 ELSE 2

\* lines 526-539: the most recently created item of ll_list, its file, and
\* update_item when sp_fields are given; return None when the list is empty
QueryCreatedItem ==
    /\ pc = "aep_query"
    /\ \E failAt \in 0..queryCalls :
         IF failAt = 1 \/ (failAt > 1 /\ Len(ll_items) > 0)
         THEN /\ calls' = StoreCalls(idx, failAt)
              /\ ReturnFalse
              /\ UNCHANGED <<ll_items, cur>>
         ELSE IF Len(ll_items) = 0
         THEN /\ failAt = 0
              /\ calls' = StoreCalls(idx, 1)
              /\ pc' = "log"
              /\ UNCHANGED <<ll_items, cur, result>>
         ELSE /\ failAt = 0
              /\ calls' = StoreCalls(idx, queryCalls)
              /\ cur' = [cur EXCEPT !.item = Len(ll_items)]
              /\ ll_items' = IF settings.sp_fields
                             THEN [ll_items EXCEPT ![Len(ll_items)].fields = TRUE]
                             ELSE ll_items
              /\ pc' = "aep_canvas"
              /\ UNCHANGED result
    /\ page' = NoPage
    /\ UNCHANGED <<pages, settings, files, run, idx, main_content, page_canvas, remote,
                   assets, att, linklog, nextGuid, fn>>

\* lines 541-546: checkout, then save_draft with the canvas and publish
AttachCanvas ==
    /\ pc = "aep_canvas"
    /\ \E failAt \in 0..2 :
         IF failAt > 0
         THEN /\ calls' = StoreCalls(idx, failAt)
              /\ ReturnFalse
              /\ UNCHANGED <<remote, page>>
         ELSE /\ calls' = StoreCalls(idx, 2)
              /\ remote' = [remote EXCEPT ![cur.site_page].canvas = page_canvas]
              /\ page' = [ok |-> TRUE, id |-> ll_items[cur.item].id,
                          url |-> ll_items[cur.item].site_page]
              /\ pc' = "log" /\ UNCHANGED result
    /\ UNCHANGED <<pages, settings, files, run, idx, main_content, page_canvas, cur,
                   ll_items, assets, att, linklog, nextGuid, fn>>

----------------------------------------------------------------------------
(* the end of the loop body *)

\* lines 180-183: page["url"] of a page that is None raises TypeError
LogLinks ==
    /\ pc = "log"
    /\ LET links == find_links(main_content)
       IN IF Len(links) = 0
          THEN pc' = "rename" /\ UNCHANGED <<linklog, result>>
          ELSE IF ~page.ok
          THEN ReturnFalse /\ UNCHANGED linklog
          ELSE /\ linklog' = logLinks(main_content, links, page.url, linklog)
               /\ pc' = "rename" /\ UNCHANGED result
    /\ calls' = NoCalls
    /\ UNCHANGED <<pages, settings, files, run, idx, main_content, page_canvas, page, cur,
                   remote, ll_items, assets, att, nextGuid, fn>>

\* line 187
Rename ==
    /\ pc = "rename"
    /\ files' = [files EXCEPT ![idx] = "complete"]
    /\ idx' = nextEntry(idx)
    /\ pc' = "loop"
    /\ calls' = NoCalls
    /\ UNCHANGED <<pages, settings, run, result, main_content, page_canvas, page, cur,
                   remote, ll_items, assets, att, linklog, nextGuid, fn>>

\* the tool is run again over the same export directory
Rerun ==
    /\ pc = "returned" /\ run < MaxRuns
    /\ run' = run + 1
    /\ pc' = "start" /\ idx' = 0 /\ result' = "none"
    /\ main_content' = <<>> /\ page_canvas' = <<>> /\ page' = NoPage /\ cur' = NoCur
    /\ att' = NoAtt
    /\ calls' = NoCalls
    /\ UNCHANGED <<pages, settings, files, remote, ll_items, assets, linklog, nextGuid, fn>>

Next ==
    \/ Start \/ LoopDone \/ LoopEntry \/ GetSiteUser \/ RemoveElements
    \/ UploadPageAttachment \/ FixAttachmentsPath \/ FixAnchors \/ GetSPPageCanvas
    \/ AddPageShell \/ QueryCreatedItem \/ AttachCanvas \/ LogLinks \/ Rename \/ Rerun

Spec == Init /\ [][Next]_vars

----------------------------------------------------------------------------
(* Page-creation specification: one add_edit_page call (page_id = None) on *)
(* a store that other clients write to as well                             *)

\* the store before the call: nothing, a page this program made earlier, or
\* an item another client added earlier
StoresBefore(s) ==
    { [remote |-> <<>>, ll_items |-> <<>>, idx |-> 1],
      [remote |-> <<[owner |-> 1, canvas |-> tailBlocks(<<TextNode(<<T>>)>>)]>>,
       ll_items |-> IF s.list_is_site_pages THEN <<Item(1, 1)>> ELSE <<>>, idx |-> 2],
      [remote |-> <<>>, ll_items |-> <<Item(1, 0)>>, idx |-> 1] }

CanvasesBuilt ==
    { getSPPageCanvas(<<TextNode(<<T>>)>>, 1),
      getSPPageCanvas(<<El("img", None, None, Path("d1", "a.png"), <<>>, TRUE)>>, 1) }

InitAep ==
    /\ AttOff /\ fn = "none"
    /\ pages = <<>> /\ files = <<>> /\ run = 1 /\ result = "none" /\ linklog = <<>>
    /\ settings \in {s \in Settings : rootReadable(s.root)}
    /\ \E st \in StoresBefore(settings) :
          remote = st.remote /\ ll_items = st.ll_items /\ idx = st.idx
    /\ \E b \in CanvasesBuilt :
          main_content = b.content /\ page_canvas = b.canvas /\ nextGuid = b.guid
    /\ pc = "create" /\ page = NoPage /\ cur = NoCur /\ calls = NoCalls

NextAep == AddPageShell \/ OtherClientAddsItem \/ QueryCreatedItem \/ AttachCanvas

SpecAep == InitAep /\ [][NextAep]_vars

----------------------------------------------------------------------------
(* Claims about parse_confluence_HTML *)

Entries == 1..NumPages

\* the page has a canvas attached on the store
attachedFor(i) == \E k \in DOMAIN remote : remote[k].owner = i /\ remote[k].canvas # <<>>

\* C1 (as claimed): a page's file is renamed only if add_edit_page published
\* the page shell and afterwards saved and published the page with its canvas.
C1_RenamedOnlyWithCanvas ==
    \A i \in Entries : files[i] = "complete" => attachedFor(i)

\* C2 (as claimed): a failure while one page is processed never ends the run;
\* the run returns only after every entry of the index has been reached.
C2_FailureDoesNotEndRun ==
    (pc = "returned" /\ settings.root = "index") => idx > NumPages

\* no children, or no text but whitespace
whitespaceOnly(c) == \A k \in DOMAIN c : \A j \in DOMAIN c[k].text : c[k].text[j] = Blank

skippable(i) == pages[i].file /\ pages[i].main /\ whitespaceOnly(pages[i].content)

\* C3: for a page whose main content has no children or only whitespace text
\* no Store call is made, the file is not renamed, and the loop goes on with
\* the next index entry.
C3_EmptyPageSkipped ==
    /\ [](\A i \in Entries : skippable(i) => (calls.entry # i /\ files[i] = "present"))
    /\ [][(pc = "loop" /\ idx \in Entries /\ skippable(idx))
            => (/\ pc' = "loop" /\ idx' = idx + 1
                /\ calls'.n = 0 /\ files' = files
                /\ remote' = remote /\ assets' = assets /\ ll_items' = ll_items)]_vars

C3_Witness ==
    \E i \in Entries :
        /\ skippable(i) /\ Len(pages[i].content) > 0
        /\ idx = i + 1 /\ pc = "user"

createdFor(r, i) == Cardinality({k \in DOMAIN r : r[k].owner = i})

\* C9: once a page's file carries the completion suffix no step makes a Store
\* call for that page or creates it again, in this run and in every later
\* one, while an entry whose file is still there is taken into the pipeline.
C9_RerunIncremental ==
    [][/\ \A p \in Entries :
            files[p] = "complete" =>
                /\ files'[p] = "complete"
                /\ calls'.entry # p
                /\ createdFor(remote', p) = createdFor(remote, p)
       /\ (/\ pc = "loop" /\ idx \in Entries /\ files[idx] = "present"
           /\ pages[idx].main /\ ~whitespaceOnly(pages[idx].content))
            => (pc' = "user" /\ idx' = idx /\ main_content' = pages[idx].content)]_vars

C9_Witness ==
    /\ run = 2 /\ pc = "create"
    /\ \E p \in Entries : p < idx /\ files[p] = "complete" /\ createdFor(remote, p) = 1

linksOf(c) == {k \in DOMAIN c : c[k].tag = "a" /\ c[k].href # None}

\* C10 (as claimed): after a page has been created the link log has gained one
\* entry (href, text, page URL) for every anchor with an href of the main
\* content, and nothing for a page without links.
C10_EveryLinkLogged ==
    (pc = "rename" /\ page.ok) =>
        LET new == SubSeq(linklog, cur.logStart + 1, Len(linklog))
        IN /\ Len(new) = Cardinality(linksOf(main_content))
           /\ \A k \in linksOf(main_content) :
                 inSeq(LogLine(main_content[k].href, main_content[k].text, page.url), new)

\* the content the rewrite step of the current entry starts from
beforeRewrite == remove_elements(pages[idx].content)

\* C11 (as claimed): after the rewrite step of a page every img of the main
\* content has the src main_path + "/" + its original src and every attachment
\* anchor has the href main_path + "/" + its original href; none keeps its
\* local relative path.
C11_EveryReferenceRewritten ==
    pc = "anchors" =>
        \A i \in DOMAIN beforeRewrite :
            /\ (beforeRewrite[i].tag = "img" /\ beforeRewrite[i].src # None)
                  => main_content[i].src = slash(main_path, beforeRewrite[i].src)
            /\ (beforeRewrite[i].tag = "a" /\ beforeRewrite[i].att)
                  => main_content[i].href = slash(main_path, beforeRewrite[i].href)

\* C12 (as claimed): a page's file is not renamed when a Store call made for
\* the page failed or a local attachment file of the page is missing.
C12_FailureLeavesFileInPlace ==
    \A i \in Entries :
        (pc = "loop" /\ idx = i + 1 /\ files[i] = "complete" /\ att.done) =>
            /\ ~att.ret.raised
            /\ \A k \in DOMAIN pages[i].attachments : pages[i].attachments[k].exists

C14_NoMainContentSkipped ==
    [][(pc = "loop" /\ idx \in Entries /\ files[idx] = "present" /\ ~pages[idx].main)
         => (pc' = "loop" /\ idx' = idx + 1 /\ calls'.n = 0 /\ files' = files)]_vars

\* C15: an index entry whose file does not exist is skipped, with no Store
\* call and no rename for it, and the loop goes on with the next entry; the
\* call does not return there.
C15_MissingFileSkipped ==
    /\ [](\A i \in Entries : ~pages[i].file => (files[i] = "missing" /\ calls.entry # i))
    /\ [][(pc = "loop" /\ idx \in Entries /\ files[idx] = "missing")
            => (/\ pc' = "loop" /\ idx' = idx + 1 /\ result' = result
                /\ calls'.n = 0 /\ files' = files /\ linklog' = linklog
                /\ remote' = remote /\ assets' = assets /\ ll_items' = ll_items)]_vars

C15_Witness ==
    \E i \in Entries :
        /\ files[i] = "missing" /\ settings.root = "index"
        /\ idx = i + 1 /\ pc = "user"

\* the ids of the blocks of a canvas that carry one (type 3: image, type 4: rich text)
blockIds(canvas, types) ==
    {canvas[k].id : k \in {j \in DOMAIN canvas : canvas[j].controlType \in types}}

distinctIds(canvas) ==
    \A j, k \in DOMAIN canvas :
        (canvas[j].controlType # 0 /\ canvas[k].controlType # 0 /\ canvas[j].id = canvas[k].id)
            => j = k

\* C17 (as claimed): within one canvas the block ids are pairwise distinct,
\* and the canvases of two builds share no block id.
C17_BlockIdsNeverShared ==
    /\ \A k \in DOMAIN remote : distinctIds(remote[k].canvas)
    /\ \A j, k \in DOMAIN remote :
          j # k => blockIds(remote[j].canvas, {3, 4}) \cap blockIds(remote[k].canvas, {3, 4}) = {}

\* C17 (amended): within one canvas the block ids are pairwise distinct; the
\* ids of the image blocks are fresh in every build, so the canvases of two
\* builds share no image-block id; the rich-text block has the one fixed id
\* in every canvas.
C17_ImageBlockIdsFresh ==
    /\ [](distinctIds(page_canvas) /\ \A k \in DOMAIN remote : distinctIds(remote[k].canvas))
    /\ [](\A j, k \in DOMAIN remote :
            j # k => blockIds(remote[j].canvas, {3}) \cap blockIds(remote[k].canvas, {3}) = {})
    /\ [](\A k \in DOMAIN remote :
            remote[k].canvas # <<>> => blockIds(remote[k].canvas, {4}) = {RteInstanceId})
    /\ [][(pc = "canvas" /\ pc' = "create")
            => \A id \in blockIds(page_canvas', {3}) : id >= nextGuid /\ id < nextGuid']_vars

C17_Witness ==
    \E j, k \in DOMAIN remote :
        /\ j # k
        /\ Cardinality(blockIds(remote[j].canvas, {3})) = 2
        /\ Cardinality(blockIds(remote[k].canvas, {3})) = 2
        /\ blockIds(remote[j].canvas, {4}) = blockIds(remote[k].canvas, {4})

\* the position of a step in the pipeline of one index entry
Stage(p) ==
    CASE p = "user" -> 1 [] p = "remove" -> 2 [] p = "upload" -> 3 [] p = "rewrite" -> 4
      [] p = "anchors" -> 5 [] p = "canvas" -> 6 [] p = "create" -> 7 [] p = "aep_query" -> 8
      [] p = "aep_canvas" -> 9 [] p = "log" -> 10 [] p = "rename" -> 11 [] OTHER -> 0

\* C18: within a run the entries are taken one at a time in index order; for
\* one entry the upload comes before the rewriting, the rewriting before the
\* canvas build, the build before the page creation, the creation before the
\* link log and the rename; the next entry is begun only by the rename or the
\* skip of the current one, and every Store call is made for the current entry.
C18_SequentialPipeline ==
    [][/\ (Stage(pc) > 0 /\ Stage(pc') > 0) => (idx' = idx /\ Stage(pc') > Stage(pc))
       /\ (Stage(pc') > 0 /\ Stage(pc) = 0) => (pc = "loop" /\ pc' = "user" /\ idx' = idx)
       /\ (idx' # idx /\ pc # "start" /\ pc' # "start")
            => (/\ idx' = idx + 1 /\ pc' = "loop"
                /\ pc \in {"loop", "rename"}
                /\ (pc = "rename") = (files'[idx] = "complete" /\ files[idx] = "present"))
       /\ (pc = "start" /\ pc' = "loop") => idx' = 1
       /\ calls'.n > 0 => (calls'.entry = idx /\ idx' = idx /\ Stage(pc) > 0)
       /\ assets' # assets => pc = "upload"
       /\ (main_content' # main_content /\ Stage(pc) > 0)
            => pc \in {"remove", "rewrite", "anchors", "canvas"}
       /\ (page_canvas' # page_canvas /\ Stage(pc) > 0) => pc = "canvas"
       /\ remote' # remote => pc \in {"create", "aep_canvas"}
       /\ linklog' # linklog => pc = "log"
       /\ files' # files => pc = "rename"]_vars

C18_Witness ==
    /\ idx = 2 /\ pc = "rename" /\ page.ok
    /\ files[1] = "complete" /\ attachedFor(1)
    /\ att.done /\ Len(att.ret.uploads) > 0 /\ Len(linklog) > 0

\* the place of the store a rewritten reference names
pointsAt(url, f) == url = slash(base_url, slash(f.folder, f.name))

\* C19 (as claimed): after the upload and the rewrite step of a page, every
\* reference of the main content to a file that was uploaded for the page
\* names the place where that file now is in the store.
C19_ReferencePointsAtUpload ==
    (pc = "anchors" /\ att.done) =>
        \A u \in DOMAIN att.ret.uploads :
            \A i \in DOMAIN beforeRewrite :
                /\ (beforeRewrite[i].att /\ beforeRewrite[i].tag = "a"
                    /\ beforeRewrite[i].href = att.ret.uploads[u])
                      => \E f \in assets :
                            f.data = att.ret.uploads[u] /\ pointsAt(main_content[i].href, f)
                /\ (beforeRewrite[i].att /\ beforeRewrite[i].tag = "img"
                    /\ beforeRewrite[i].src = att.ret.uploads[u])
                      => \E f \in assets :
                            f.data = att.ret.uploads[u] /\ pointsAt(main_content[i].src, f)

\* C20 (as claimed): the id and url add_edit_page returns for a new page, and
\* the list item sp_fields are applied to, are those of the page this call
\* created (list_name naming the library the pages are created in), whatever
\* other clients add to the list meanwhile.
C20_ReturnsOwnPage ==
    settings.list_is_site_pages =>
        /\ (pc = "log" /\ page.ok) =>
              /\ page.url = cur.site_page
              /\ page.id = ll_items[cur.item].id
              /\ ll_items[cur.item].site_page = cur.site_page
        /\ \A k \in DOMAIN ll_items :
              ll_items[k].fields => (cur.site_page # 0 /\ ll_items[k].site_page = cur.site_page)

====
